---- MODULE Spec2Model ----
(***************************************************************************)
(* STARK: process start-up (src/main.rs) and the render thread with its    *)
(* graphics engine (src/graphics/mod.rs).                                  *)
(*                                                                         *)
(* Three threads: "input" (the main thread, which ends in                  *)
(* context::run_loop), "manager" (manager_loop) and "render"               *)
(* (graphics::render_loop).  The Sail runtime (environment, symbol table,  *)
(* queues, evaluator), context::run_loop and manager_loop are not part of  *)
(* the two source files; what the model needs of them follows their        *)
(* documented contracts.                                                   *)
(***************************************************************************)
EXTENDS Integers, Sequences, FiniteSets, TLC

\* ------------------------------------------------------------- bounds

\* most lines the script adds before it stops adding
MaxLines == 2
\* deepest evaluation stack the script reaches
MaxStack == 2
\* the most lines a script of line calls alone adds: one more than the
\* InitBuflen / LineBytes lines at which the vertex buffer is grown
MaxEngineLines == 17

\* ---------------------------------------------------- program constants

\* Engine::new: buflen: 256
InitBuflen == 256
\* size_of::<[f32; 4]>()
LineBytes == 16
\* number of f32 read from the points argument of add-line
PointFloats == 4
\* number of f32 read from the colors argument of add-line
ColorFloats == 3
\* const SIZE: [u32; 2] = [1280, 720]
SizeW == 1280
SizeH == 720

\* ------------------------------------------------------------ universe

Threads == {"input", "manager", "render"}
Frames == {"main_env", "rndr_env"}
Regions == {"main_region", "rndr_region", "ctxt_region"}
\* what a frame slot holds: nothing, a reference to an object, or a native procedure
Unbound == [kind |-> "unbound", name |-> "", arity |-> 0]
Ref(name) == [kind |-> "obj", name |-> name, arity |-> 0]
Native(name, arity) == [kind |-> "native", name |-> name, arity |-> arity]
NoParent == "none"

\* the cross-thread protocol symbols and the names the render thread binds
EndpointIds == {"S_MR_SEND", "S_CM_RECV", "S_MR_RECV", "S_CR_RECV"}
ScalarIds == {"S_FR_DIMS", "S_CUR_POS"}
NativeNames == {"redraw", "frame-size", "add-line", "pop-line", "bg-col", "clear"}
Ids == EndpointIds \cup ScalarIds \cup {"S_ENGINE", "S_RNDR"} \cup NativeNames

\* the three channels of main: name, send endpoint, receive endpoint
Channels ==
  { [name |-> "main->render", send |-> "mr_send", recv |-> "mr_recv"],
    [name |-> "context->main", send |-> "cm_send", recv |-> "cm_recv"],
    [name |-> "context->render", send |-> "cr_send", recv |-> "cr_recv"] }

\* the Region each thread owns
OwnRegion(t) ==
  CASE t = "input" -> "ctxt_region"
    [] t = "manager" -> "main_region"
    [] t = "render" -> "rndr_region"

\* the environment a thread's lookups are rooted at (the input thread has none)
RootEnv(t) ==
  CASE t = "input" -> NoParent
    [] t = "manager" -> "main_env"
    [] t = "render" -> "rndr_env"

VARIABLES
  argc,       \* args.len() of the process
  pc_main,    \* position of the main (input) thread
  ran,        \* entry modes that have run: subset of {"file", "repl", "app"}
  window,     \* init_context has created the frame (window)
  heap,       \* allocated objects: name -> [region, kind]
  env,        \* frame -> (id -> Unbound, Ref or Native)
  parent,     \* frame -> parent frame or NoParent
  insCount,   \* frame -> (id -> number of insertions)
  linkCount,  \* number of times rndr_env's parent link was written
  lateIns,    \* insertions made after a worker thread was spawned: <<thread, frame, id>>
  handed,     \* thread -> raw references passed to it as spawn / run_loop arguments
  tblIn,      \* thread -> "none" | "insert" | "lookup": inside the Symbol Table
  fr_dims,    \* contents of the shared frame-dimensions vector
  pc_mgr,     \* position of the manager thread
  pc_render,  \* position of the render thread
  engine,     \* Engine: clear, lines, colors, buflen, extent, should_configure_swapchain
  gstate,     \* GraphicsState: framebuffer, fence, vertex buffers
  stack,      \* depth of the render thread's EvalStack
  ret_slot,   \* "sigil" or "value"
  lastCall    \* the last native call or host draw of the render thread

wiringVars == <<heap, env, parent, insCount, linkCount, lateIns, handed>>
mainVars == <<argc, pc_main, ran, window, fr_dims>>
renderVars == <<pc_render, engine, gstate, stack, ret_slot, lastCall>>
vars == <<argc, pc_main, ran, window, heap, env, parent, insCount, linkCount,
          lateIns, handed, tblIn, fr_dims, pc_mgr, pc_render, engine, gstate,
          stack, ret_slot, lastCall>>

\* --------------------------------------------------------- environment

\* sail::env_layer_ins_by_id: the binding lands in the frame named by the caller
env_layer_ins_by_id(e, frame, id, val) ==
  [e EXCEPT ![frame][id] = val]

\* sail::env_lookup_by_id: a miss continues in the linked parent
RECURSIVE env_lookup_in(_, _, _, _)
env_lookup_in(e, p, frame, id) ==
  IF frame = NoParent THEN Unbound
  ELSE IF e[frame][id] # Unbound THEN e[frame][id]
  ELSE env_lookup_in(e, p, p[frame], id)

env_lookup_by_id(frame, id) == env_lookup_in(env, parent, frame, id)

\* the process has not been killed by a fault or an abort
Alive == pc_render # "aborted"

\* a worker thread has been spawned
Spawned == pc_render # "unspawned" \/ pc_mgr # "unspawned"

\* one insertion by thread t: the binding, its count, and whether it came late
Insert(t, frame, id, val, e, c, l) ==
  [ env |-> env_layer_ins_by_id(e, frame, id, val),
    cnt |-> [c EXCEPT ![frame][id] = @ + 1],
    late |-> IF Spawned THEN l \cup {<<t, frame, id>>} ELSE l ]

\* an object allocated in a Region
Obj(region, kind) == [region |-> region, kind |-> kind]

\* ---------------------------------------------------- main: entry modes

\* a variant without process::exit(0): main goes on after the mode block
MainRunFile_NoExit ==
  /\ pc_main = "start"
  /\ argc >= 3
  /\ ran' = ran \cup {"file"}
  /\ pc_main' = "after_mode"
  /\ UNCHANGED <<argc, window, fr_dims, wiringVars, tblIn, pc_mgr, renderVars>>

\* args.len() >= 3: sail::run_file, print the result or error, process::exit(0)
MainRunFile ==
  /\ pc_main = "start"
  /\ argc >= 3
  /\ ran' = ran \cup {"file"}
  /\ pc_main' = "exited"
  /\ UNCHANGED <<argc, window, fr_dims, wiringVars, tblIn, pc_mgr, renderVars>>

\* args.len() >= 2: sail::repl(io::stdin())
MainRepl ==
  /\ pc_main = "start"
  /\ argc < 3
  /\ argc >= 2
  /\ ran' = ran \cup {"repl"}
  /\ pc_main' = "repl"
  /\ UNCHANGED <<argc, window, fr_dims, wiringVars, tblIn, pc_mgr, renderVars>>

\* sail::repl: read a line, evaluate it, print it, and read the next one
ReplStep ==
  /\ pc_main = "repl"
  /\ UNCHANGED vars

\* reached with no mode argument, or when the mode block is left:
\* context::init_context creates the frame and the event loop
MainInitContext ==
  /\ \/ pc_main = "start" /\ argc < 2
     \/ pc_main = "after_mode"
  /\ ran' = ran \cup {"app"}
  /\ window' = TRUE
  /\ pc_main' = "ctx"
  /\ UNCHANGED <<argc, fr_dims, wiringVars, tblIn, pc_mgr, renderVars>>

\* ------------------------------------------------------- main: wiring

\* the three acquire_mem_region calls
MainAcquireRegions ==
  /\ pc_main = "ctx"
  /\ heap' = heap @@ [r \in Regions |-> Obj(r, "region")]
  /\ pc_main' = "regions"
  /\ UNCHANGED <<argc, ran, window, fr_dims, env, parent, insCount, linkCount,
                 lateIns, handed, tblIn, pc_mgr, renderVars>>

\* prep_environment(main_region), then environment_setup starts interning
MainPrepEnvironment ==
  /\ pc_main = "regions"
  /\ heap' = heap @@ ("sl_tbl" :> Obj("main_region", "table"))
                  @@ ("main_env" :> Obj("main_region", "frame"))
  /\ tblIn' = [tblIn EXCEPT !["input"] = "insert"]
  /\ pc_main' = "env_setup"
  /\ UNCHANGED <<argc, ran, window, fr_dims, env, parent, insCount, linkCount,
                 lateIns, handed, pc_mgr, renderVars>>

\* environment_setup returns; env_create(rndr_region, 255); set_next_list_elt(r_env, m_env)
MainEnvCreate ==
  /\ pc_main = "env_setup"
  /\ tblIn' = [tblIn EXCEPT !["input"] = "none"]
  /\ heap' = heap @@ ("rndr_env" :> Obj("rndr_region", "frame"))
  /\ parent' = [parent EXCEPT !["rndr_env"] = "main_env"]
  /\ linkCount' = linkCount + 1
  /\ pc_main' = "envs"
  /\ UNCHANGED <<argc, ran, window, fr_dims, env, insCount, lateIns, handed,
                 pc_mgr, renderVars>>

\* the three queue_create calls: the sender lives in the first Region, the
\* receiver in the second
MainQueueCreate ==
  /\ pc_main = "envs"
  /\ heap' = heap @@ ("mr_send" :> Obj("main_region", "endpoint"))
                  @@ ("mr_recv" :> Obj("rndr_region", "endpoint"))
                  @@ ("cm_send" :> Obj("ctxt_region", "endpoint"))
                  @@ ("cm_recv" :> Obj("main_region", "endpoint"))
                  @@ ("cr_send" :> Obj("ctxt_region", "endpoint"))
                  @@ ("cr_recv" :> Obj("rndr_region", "endpoint"))
  /\ pc_main' = "queues"
  /\ UNCHANGED <<argc, ran, window, fr_dims, env, parent, insCount, linkCount,
                 lateIns, handed, tblIn, pc_mgr, renderVars>>

\* the four env_layer_ins_by_id calls that bind the channel endpoints
MainBindEndpoints ==
  /\ pc_main = "queues"
  /\ LET i1 == Insert("input", "main_env", "S_MR_SEND", Ref("mr_send"), env, insCount, lateIns)
         i2 == Insert("input", "main_env", "S_CM_RECV", Ref("cm_recv"), i1.env, i1.cnt, i1.late)
         i3 == Insert("input", "rndr_env", "S_MR_RECV", Ref("mr_recv"), i2.env, i2.cnt, i2.late)
         i4 == Insert("input", "rndr_env", "S_CR_RECV", Ref("cr_recv"), i3.env, i3.cnt, i3.late)
     IN /\ env' = i4.env
        /\ insCount' = i4.cnt
        /\ lateIns' = i4.late
  /\ pc_main' = "endpoints"
  /\ UNCHANGED <<argc, ran, window, fr_dims, heap, parent, linkCount, handed,
                 tblIn, pc_mgr, renderVars>>

\* a variant that forgets the cursor-position binding
MainSharedScalars_NoCurPos ==
  /\ pc_main = "endpoints"
  /\ heap' = heap @@ ("fr_dims" :> Obj("main_region", "value"))
                  @@ ("cur_pos" :> Obj("main_region", "value"))
  /\ LET i1 == Insert("input", "main_env", "S_FR_DIMS", Ref("fr_dims"), env, insCount, lateIns)
     IN /\ env' = i1.env
        /\ insCount' = i1.cnt
        /\ lateIns' = i1.late
  /\ fr_dims' = <<0, 0>>
  /\ pc_main' = "scalars"
  /\ UNCHANGED <<argc, ran, window, parent, linkCount, handed, tblIn, pc_mgr,
                 renderVars>>

\* arrvec_init of fr_dims and cur_pos in main_region and their two bindings
MainSharedScalars ==
  /\ pc_main = "endpoints"
  /\ heap' = heap @@ ("fr_dims" :> Obj("main_region", "value"))
                  @@ ("cur_pos" :> Obj("main_region", "value"))
  /\ LET i1 == Insert("input", "main_env", "S_FR_DIMS", Ref("fr_dims"), env, insCount, lateIns)
         i2 == Insert("input", "main_env", "S_CUR_POS", Ref("cur_pos"), i1.env, i1.cnt, i1.late)
     IN /\ env' = i2.env
        /\ insCount' = i2.cnt
        /\ lateIns' = i2.late
  /\ fr_dims' = <<0, 0>>
  /\ pc_main' = "scalars"
  /\ UNCHANGED <<argc, ran, window, parent, linkCount, handed, tblIn, pc_mgr,
                 renderVars>>

\* thread::Builder ... spawn(render_loop(NAME, SIZE, &handle, rndr_region, sl_tbl, rndr_env))
MainSpawnRender ==
  /\ pc_main = "scalars"
  /\ handed' = [handed EXCEPT !["render"] = {"rndr_region", "sl_tbl", "rndr_env"}]
  /\ pc_render' = "spawned"
  /\ pc_main' = "render_spawned"
  /\ UNCHANGED <<argc, ran, window, fr_dims, heap, env, parent, insCount,
                 linkCount, lateIns, tblIn, pc_mgr, engine, gstate, stack,
                 ret_slot, lastCall>>

\* thread::Builder ... spawn(manager_loop(frame, main_region, sl_tbl, main_env))
MainSpawnManager ==
  /\ pc_main = "render_spawned"
  /\ Alive
  /\ handed' = [handed EXCEPT !["manager"] = {"main_region", "sl_tbl", "main_env"}]
  /\ pc_mgr' = "running"
  /\ pc_main' = "manager_spawned"
  /\ UNCHANGED <<argc, ran, window, fr_dims, heap, env, parent, insCount,
                 linkCount, lateIns, tblIn, renderVars>>

\* context::run_loop(event_loop, threads, ctxt_region, cm_send, cr_send, fr_dims, cur_pos)
MainRunLoop ==
  /\ pc_main = "manager_spawned"
  /\ Alive
  /\ handed' = [handed EXCEPT !["input"] =
                  {"ctxt_region", "cm_send", "cr_send", "fr_dims", "cur_pos"}]
  /\ pc_main' = "run_loop"
  /\ UNCHANGED <<argc, ran, window, fr_dims, heap, env, parent, insCount,
                 linkCount, lateIns, tblIn, pc_mgr, renderVars>>

\* the frame size the window system reports after a resize
FrameDims == {<<640, 480>>}

\* context::run_loop: a resize event stores the new size through the fr_dims
\* pointer; the loop is handed no environment and inserts into none
RunLoopStep ==
  /\ pc_main = "run_loop"
  /\ Alive
  /\ \E d \in FrameDims : fr_dims' = d
  /\ UNCHANGED <<argc, pc_main, ran, window, wiringVars, tblIn, pc_mgr, renderVars>>

\* ------------------------------------------------------------ manager

\* manager_loop drives its own evaluator over main_env with the shared table:
\* it enters the table to intern or to look a symbol up
MgrTableEnter ==
  /\ pc_mgr = "running"
  /\ Alive
  /\ tblIn["manager"] = "none"
  /\ \E k \in {"insert", "lookup"} : tblIn' = [tblIn EXCEPT !["manager"] = k]
  /\ UNCHANGED <<mainVars, wiringVars, pc_mgr, renderVars>>

MgrTableLeave ==
  /\ pc_mgr = "running"
  /\ Alive
  /\ tblIn["manager"] # "none"
  /\ tblIn' = [tblIn EXCEPT !["manager"] = "none"]
  /\ UNCHANGED <<mainVars, wiringVars, pc_mgr, renderVars>>

\* -------------------------------------------------------- Sail values

\* a tagged value: configuration tag, core type, element type and length of a
\* vector, and the number a scalar holds
Val(cfg, core, elt, len, num) ==
  [cfg |-> cfg, core |-> core, elt |-> elt, len |-> len, num |-> num]

\* the object render_loop allocates for the engine pointer (Cfg::B8Other)
EngObj == Val("B8Other", "None", "None", 0, 0)
U32v(n) == Val("B4U32", "U32", "None", 0, n)
F32v == Val("B4F32", "F32", "None", 0, 0)
VecArr(elt, n) == Val("VecArr", "VecArr", elt, n, 0)

\* sail::get_cfg_spec, sail::core_type, sail::core_read_field::<u32>(v, 0)
get_cfg_spec(v) == v.cfg
core_type(v) == v.core
core_read_elt(v) == v.elt

\* sail::u32_get, sail::f32_get: the typed accessors assert the core type
u32_ok(v) == core_type(v) = "U32"
f32_ok(v) == core_type(v) = "F32"

\* the arguments a script can pass
HandleArgs == {EngObj, U32v(640)}
DimArgs == {U32v(640), F32v}
ChannelArgs == {F32v, U32v(640)}
PointArgs == {VecArr("T_F32", 4), VecArr("T_F32", 2), VecArr("T_U32", 4), F32v}
ColorArgs == {VecArr("T_F32", 3), VecArr("T_F32", 2), VecArr("T_U32", 3), F32v}

\* outcomes of acquire_image and of present
AcquireOutcomes == {"ok", "outofdate", "error"}
PresentOutcomes == {"ok", "outofdate", "error"}
\* outcomes of a read past the end of a payload: some bytes, or a fault
OobOutcomes == {"garbage", "fault"}

\* ------------------------------------------------------------- Engine

\* Engine::new(GraphicsState::new(window, name, size[0], size[1]))
EngineNew ==
  [ clear |-> "black", lines |-> <<>>, colors |-> <<>>, buflen |-> InitBuflen,
    extent |-> <<SizeW, SizeH>>, scs |-> TRUE ]

\* GraphicsState::new: no framebuffer, a fence created unsignaled
\* (create_fence(false)), no buffers; last_wait is what the last
\* wait_for_fence met: "ok" when a submission that signals the fence was
\* pending or done, "timeout" when nothing was there to signal it
GraphicsStateNew ==
  [ framebuffer |-> FALSE, fence |-> "unsignaled", vbufs |-> 0, vbuf_len |-> 0,
    pipelines |-> 0, last_wait |-> "none" ]

\* before render_loop has built the engine
NoEngine ==
  [ clear |-> "none", lines |-> <<>>, colors |-> <<>>, buflen |-> 0,
    extent |-> <<0, 0>>, scs |-> FALSE ]
NoGraphics ==
  [ framebuffer |-> FALSE, fence |-> "none", vbufs |-> 0, vbuf_len |-> 0,
    pipelines |-> 0, last_wait |-> "none" ]

\* device.wait_for_fence(submission_complete_fence, 1_000_000_000): the fence
\* is signaled by a submitted command buffer, or the wait runs into its timeout
wait_for_fence(g) ==
  [g EXCEPT !.last_wait = IF g.fence = "pending" THEN "ok" ELSE "timeout"]

\* Engine::set_clear
set_clear(e, c) == [e EXCEPT !.clear = c]

\* Engine::state_buffer_setup: wait for the fence, free the old memory and
\* buffers, make one buffer of buflen bytes
state_buffer_setup(e, g) ==
  [wait_for_fence(g) EXCEPT !.vbufs = 1, !.vbuf_len = e.buflen]

\* Engine::state_pipeline_setup
state_pipeline_setup(g) == [g EXCEPT !.pipelines = @ + 1]

\* buffer_size_check that grows the buffer only when the lines exceed it
buffer_size_check_Exceeds(e, g) ==
  IF LineBytes * Len(e.lines) > e.buflen
  THEN LET e2 == [e EXCEPT !.buflen = 2 * e.buflen]
       IN [engine |-> e2, gstate |-> state_buffer_setup(e2, g)]
  ELSE [engine |-> e, gstate |-> g]

\* Engine::buffer_size_check: returns the engine and the graphics state
buffer_size_check(e, g) ==
  IF LineBytes * Len(e.lines) >= e.buflen
  THEN LET e2 == [e EXCEPT !.buflen = 2 * e.buflen]
       IN [engine |-> e2, gstate |-> state_buffer_setup(e2, g)]
  ELSE [engine |-> e, gstate |-> g]

\* Engine::add_line
add_line(e, g, pts, col) ==
  buffer_size_check([e EXCEPT !.lines = Append(@, pts), !.colors = Append(@, col)], g)

\* Engine::empty_lines
empty_lines(e) == [e EXCEPT !.lines = <<>>, !.colors = <<>>]

\* Vec::pop: nothing happens on an empty vector
VecPop(s) == IF Len(s) = 0 THEN s ELSE SubSeq(s, 1, Len(s) - 1)

\* the draw commands draw_frame records in its render pass: for l in
\* 0..lines.len(), the color colors[l] as push constant and the vertices
\* 2l..2l+2 (lines and colors are indexed from 1 here)
draw_commands(e) ==
  [l \in 1..Len(e.lines) |->
     [color |-> e.colors[l], first |-> 2 * (l - 1), end |-> 2 * (l - 1) + 2]]

\* GraphicsState::set_extent
set_extent(e, w, h) == [e EXCEPT !.extent = <<w, h>>]

\* GraphicsState::config_swapchain: when there is a framebuffer, wait for the
\* fence and destroy it; create a new one
config_swapchain(g) ==
  [(IF g.framebuffer THEN wait_for_fence(g) ELSE g) EXCEPT !.framebuffer = TRUE]

\* what one draw_frame did
Draw(acq, pres, submits, presents, returned) ==
  [ acq |-> acq, pres |-> pres, submits |-> submits, presents |-> presents,
    returned |-> returned ]
NoDraw == Draw("none", "none", 0, 0, TRUE)

\* a variant that submits and presents without looking at the acquisition
draw_frame_NoEarlyReturn(e, g, acq, pres) ==
  [ engine |-> e, gstate |-> [wait_for_fence(g) EXCEPT !.fence = "pending"],
    draw |-> Draw(acq, "ok", 1, 1, TRUE) ]

\* Engine::draw_frame: wait for and reset the fence, acquire an image (return
\* early when that fails), record the render pass into the framebuffer, submit
\* with the fence, present
draw_frame(e, g, acq, pres) ==
  LET g1 == [wait_for_fence(g) EXCEPT !.fence = "unsignaled"]
      g2 == [wait_for_fence(g) EXCEPT !.fence = "pending"]
  IN CASE acq = "outofdate" ->
            [ engine |-> [e EXCEPT !.scs = TRUE], gstate |-> g1,
              draw |-> Draw(acq, "none", 0, 0, TRUE) ]
       [] acq = "error" ->
            [ engine |-> e, gstate |-> g1, draw |-> Draw(acq, "none", 0, 0, TRUE) ]
       [] acq = "ok" /\ ~g.framebuffer ->
            [ engine |-> e, gstate |-> g1, draw |-> Draw(acq, "none", 0, 0, FALSE) ]
       [] acq = "ok" /\ g.framebuffer /\ pres = "ok" ->
            [ engine |-> e, gstate |-> g2, draw |-> Draw(acq, pres, 1, 1, TRUE) ]
       [] acq = "ok" /\ g.framebuffer /\ pres = "outofdate" ->
            [ engine |-> [e EXCEPT !.scs = TRUE], gstate |-> g2,
              draw |-> Draw(acq, pres, 1, 1, TRUE) ]
       [] acq = "ok" /\ g.framebuffer /\ pres = "error" ->
            [ engine |-> e, gstate |-> g2, draw |-> Draw(acq, pres, 1, 1, FALSE) ]

\* ------------------------------------------------------------ natives

\* the outcome of one native call: the engine and graphics state it leaves,
\* how it failed ("none", "shape": an assertion on an argument, "panic": an
\* unwrap or panic in draw_frame, "fault": a faulting read), whether the
\* engine pointer was read out of the handle, whether bytes past a payload
\* were read, and the frame it drew
Res(e, g, fatal, deref, oob, d) ==
  [engine |-> e, gstate |-> g, fatal |-> fatal, deref |-> deref, oob |-> oob, draw |-> d]

\* assert_eq!(sail::get_cfg_spec(eng_ptr), sail::Cfg::B8Other)
handle_ok(eng_ptr) == get_cfg_spec(eng_ptr) = "B8Other"

\* assert_eq!(core_type(v), Some(VecArr)); assert_eq!(core_read_field::<u32>(v, 0), T_F32.0)
f32_vec_ok(v) == core_type(v) = "VecArr" /\ core_read_elt(v) = "T_F32"

\* "redraw" 1 [eng_ptr]
native_redraw(e, g, c) ==
  IF ~handle_ok(c.args[1]) THEN Res(e, g, "shape", FALSE, FALSE, NoDraw)
  ELSE LET d == draw_frame(e, g, c.acq, c.pres)
       IN Res(d.engine, d.gstate, IF d.draw.returned THEN "none" ELSE "panic",
              TRUE, FALSE, d.draw)

\* a variant that stores the new extent before the width and height are checked
native_frame_size_SetFirst(e, g, c) ==
  IF ~handle_ok(c.args[1]) THEN Res(e, g, "shape", FALSE, FALSE, NoDraw)
  ELSE IF ~(u32_ok(c.args[2]) /\ u32_ok(c.args[3]))
  THEN Res([set_extent(e, c.args[2].num, c.args[3].num) EXCEPT !.scs = TRUE],
           g, "shape", TRUE, FALSE, NoDraw)
  ELSE Res([set_extent(e, c.args[2].num, c.args[3].num) EXCEPT !.scs = TRUE],
           g, "none", TRUE, FALSE, NoDraw)

\* "frame-size" 3 [eng_ptr, w, h]
native_frame_size(e, g, c) ==
  IF ~handle_ok(c.args[1]) THEN Res(e, g, "shape", FALSE, FALSE, NoDraw)
  ELSE IF ~(u32_ok(c.args[2]) /\ u32_ok(c.args[3]))
  THEN Res(e, g, "shape", TRUE, FALSE, NoDraw)
  ELSE Res([set_extent(e, c.args[2].num, c.args[3].num) EXCEPT !.scs = TRUE],
           g, "none", TRUE, FALSE, NoDraw)

\* "add-line" 3 [eng_ptr, points, colors]: the element type is asserted, the
\* length is not; read_unaligned reads 4 and 3 floats from the payloads
native_add_line(e, g, c) ==
  IF ~handle_ok(c.args[1]) THEN Res(e, g, "shape", FALSE, FALSE, NoDraw)
  ELSE IF ~(f32_vec_ok(c.args[2]) /\ f32_vec_ok(c.args[3]))
  THEN Res(e, g, "shape", TRUE, FALSE, NoDraw)
  ELSE LET oob == c.args[2].len < PointFloats \/ c.args[3].len < ColorFloats
           a == add_line(e, g, "line", "color")
       IN IF oob /\ c.ub = "fault"
          THEN Res(e, g, "fault", TRUE, TRUE, NoDraw)
          ELSE Res(a.engine, a.gstate, "none", TRUE, oob, NoDraw)

\* pop-line that pops the line and leaves its color
native_pop_line_LinesOnly(e, g, c) ==
  IF ~handle_ok(c.args[1]) THEN Res(e, g, "shape", FALSE, FALSE, NoDraw)
  ELSE Res([e EXCEPT !.lines = VecPop(@)], g, "none", TRUE, FALSE, NoDraw)

\* "pop-line" 1 [eng_ptr]
native_pop_line(e, g, c) ==
  IF ~handle_ok(c.args[1]) THEN Res(e, g, "shape", FALSE, FALSE, NoDraw)
  ELSE Res([e EXCEPT !.lines = VecPop(@), !.colors = VecPop(@)],
           g, "none", TRUE, FALSE, NoDraw)

\* "bg-col" 4 [eng_ptr, r, g, b]
native_bg_col(e, g, c) ==
  IF ~handle_ok(c.args[1]) THEN Res(e, g, "shape", FALSE, FALSE, NoDraw)
  ELSE IF ~(f32_ok(c.args[2]) /\ f32_ok(c.args[3]) /\ f32_ok(c.args[4]))
  THEN Res(e, g, "shape", TRUE, FALSE, NoDraw)
  ELSE Res(set_clear(e, "script"), g, "none", TRUE, FALSE, NoDraw)

\* "clear" 1 [eng_ptr]
native_clear(e, g, c) ==
  IF ~handle_ok(c.args[1]) THEN Res(e, g, "shape", FALSE, FALSE, NoDraw)
  ELSE Res(empty_lines(e), g, "none", TRUE, FALSE, NoDraw)

\* a variant of the table in which redraw takes no argument
rndr_fns_RedrawNoArgs ==
  { Native("redraw", 0), Native("frame-size", 3), Native("add-line", 3),
    Native("pop-line", 1), Native("bg-col", 4), Native("clear", 1) }

\* the sail_fn! table: name and arity of each native
rndr_fns ==
  { Native("redraw", 1), Native("frame-size", 3), Native("add-line", 3),
    Native("pop-line", 1), Native("bg-col", 4), Native("clear", 1) }

\* a call a script makes: the native, its arguments, and what the platform
\* answers during the call
Call(name, args, acq, pres, ub) ==
  [name |-> name, args |-> args, acq |-> acq, pres |-> pres, ub |-> ub]

\* the well-shaped arguments
GoodPoints == VecArr("T_F32", 4)
GoodColors == VecArr("T_F32", 3)
GoodDim == U32v(640)

\* the calls a script makes: all arguments well shaped, or one of them not
NativeCalls ==
  { Call("redraw", <<h>>, a, IF a = "ok" THEN p ELSE "none", "garbage") :
      h \in {EngObj}, a \in AcquireOutcomes, p \in PresentOutcomes }
  \cup { Call(n, <<h>>, "none", "none", "garbage") :
      n \in {"redraw", "pop-line", "clear"}, h \in HandleArgs \ {EngObj} }
  \cup { Call(n, <<EngObj>>, "none", "none", "garbage") : n \in {"pop-line", "clear"} }
  \cup { Call("frame-size", <<h, GoodDim, GoodDim>>, "none", "none", "garbage") :
      h \in HandleArgs }
  \cup { Call("frame-size", <<EngObj, w, GoodDim>>, "none", "none", "garbage") :
      w \in DimArgs }
  \cup { Call("frame-size", <<EngObj, GoodDim, x>>, "none", "none", "garbage") :
      x \in DimArgs }
  \cup { Call("add-line", <<h, GoodPoints, GoodColors>>, "none", "none", "garbage") :
      h \in HandleArgs }
  \cup { Call("add-line", <<EngObj, pt, GoodColors>>, "none", "none",
              IF pt.len < PointFloats THEN u ELSE "garbage") :
      pt \in PointArgs, u \in OobOutcomes }
  \cup { Call("add-line", <<EngObj, GoodPoints, cl>>, "none", "none",
              IF cl.len < ColorFloats THEN u ELSE "garbage") :
      cl \in ColorArgs, u \in OobOutcomes }
  \cup { Call("bg-col", <<h, F32v, F32v, F32v>>, "none", "none", "garbage") :
      h \in HandleArgs }
  \cup { Call("bg-col", <<EngObj, r, gg, b>>, "none", "none", "garbage") :
      r \in ChannelArgs, gg \in ChannelArgs, b \in ChannelArgs }

\* the Apply step of a native: the evaluator passes the bound procedure its arguments
Apply(e, g, c) ==
  CASE c.name = "redraw" -> native_redraw(e, g, c)
    [] c.name = "frame-size" -> native_frame_size(e, g, c)
    [] c.name = "add-line" -> native_add_line(e, g, c)
    [] c.name = "pop-line" -> native_pop_line(e, g, c)
    [] c.name = "bg-col" -> native_bg_col(e, g, c)
    [] c.name = "clear" -> native_clear(e, g, c)

\* the record of a call kept in lastCall
CallRec(c, r) ==
  [ name |-> c.name, args |-> c.args, fatal |-> r.fatal, deref |-> r.deref,
    oob |-> r.oob, draw |-> r.draw ]
NoCall ==
  [ name |-> "none", args |-> <<>>, fatal |-> "none", deref |-> FALSE,
    oob |-> FALSE, draw |-> NoDraw ]

\* ------------------------------------------------------- render thread

\* sail::insert_native_procs(sl_reg, sl_tbl, sl_env, fns): every procedure of
\* the table is bound under its name in the frame it is given
insert_native_procs(frame, fns, e, c, l) ==
  [ env |-> [e EXCEPT ![frame] =
               [id \in Ids |-> IF \E f \in fns : f.name = id
                               THEN CHOOSE f \in fns : f.name = id
                               ELSE @[id]]],
    cnt |-> [c EXCEPT ![frame] =
               [id \in Ids |-> IF \E f \in fns : f.name = id THEN @[id] + 1 ELSE @[id]]],
    late |-> IF Spawned
             THEN l \cup {<<"render", frame, f.name>> : f \in fns}
             ELSE l ]

\* Engine::new(GraphicsState::new(window, name, size[0], size[1]))
RenderEngineNew ==
  /\ pc_render = "spawned"
  /\ engine' = EngineNew
  /\ gstate' = GraphicsStateNew
  /\ pc_render' = "engine"
  /\ UNCHANGED <<mainVars, wiringVars, tblIn, pc_mgr, stack, ret_slot, lastCall>>

\* a variant that binds the engine object in the parent frame
RenderBindEngine_InMainEnv ==
  /\ pc_render = "engine"
  /\ heap' = heap @@ ("eng_obj" :> Obj("rndr_region", "value"))
  /\ LET i == Insert("render", "main_env", "S_ENGINE", Ref("eng_obj"), env, insCount, lateIns)
     IN /\ env' = i.env
        /\ insCount' = i.cnt
        /\ lateIns' = i.late
  /\ pc_render' = "eng_bound"
  /\ UNCHANGED <<mainVars, parent, linkCount, handed, tblIn, pc_mgr, engine,
                 gstate, stack, ret_slot, lastCall>>

\* alloc(sl_reg, 8, B8Other), write the engine pointer,
\* env_layer_ins_by_id(sl_reg, sl_env, S_ENGINE, eng_obj)
RenderBindEngine ==
  /\ pc_render = "engine"
  /\ heap' = heap @@ ("eng_obj" :> Obj("rndr_region", "value"))
  /\ LET i == Insert("render", "rndr_env", "S_ENGINE", Ref("eng_obj"), env, insCount, lateIns)
     IN /\ env' = i.env
        /\ insCount' = i.cnt
        /\ lateIns' = i.late
  /\ pc_render' = "eng_bound"
  /\ UNCHANGED <<mainVars, parent, linkCount, handed, tblIn, pc_mgr, engine,
                 gstate, stack, ret_slot, lastCall>>

\* sail::insert_native_procs starts interning the six names; no lock is taken
RenderInsertNativesBegin ==
  /\ pc_render = "eng_bound"
  /\ tblIn' = [tblIn EXCEPT !["render"] = "insert"]
  /\ pc_render' = "registering"
  /\ UNCHANGED <<mainVars, wiringVars, pc_mgr, engine, gstate, stack, ret_slot, lastCall>>

\* sail::insert_native_procs binds the procedures in sl_env and returns
RenderInsertNativesEnd ==
  /\ pc_render = "registering"
  /\ tblIn' = [tblIn EXCEPT !["render"] = "none"]
  /\ LET i == insert_native_procs("rndr_env", rndr_fns, env, insCount, lateIns)
     IN /\ env' = i.env
        /\ insCount' = i.cnt
        /\ lateIns' = i.late
  /\ pc_render' = "natives"
  /\ UNCHANGED <<mainVars, heap, parent, linkCount, handed, pc_mgr, engine,
                 gstate, stack, ret_slot, lastCall>>

\* engine.setup(); engine.set_clear([1.0, 1.0, 1.0, 1.0])
RenderSetup ==
  /\ pc_render = "natives"
  /\ gstate' = state_pipeline_setup(state_buffer_setup(engine, gstate))
  /\ engine' = set_clear(engine, "white")
  /\ pc_render' = "setup"
  /\ UNCHANGED <<mainVars, wiringVars, tblIn, pc_mgr, stack, ret_slot, lastCall>>

\* read scripts/rndr.sl; sail::parser::parse(sl_reg, sl_tbl, prog_txt) starts
RenderParseBegin ==
  /\ pc_render = "setup"
  /\ tblIn' = [tblIn EXCEPT !["render"] = "insert"]
  /\ pc_render' = "parsing"
  /\ UNCHANGED <<mainVars, wiringVars, pc_mgr, engine, gstate, stack, ret_slot, lastCall>>

\* parse returns; EvalStack::new; ret_slot = sigil; stack.start(ret_addr, sl_env, prog_expr)
RenderParseEnd ==
  /\ pc_render = "parsing"
  /\ tblIn' = [tblIn EXCEPT !["render"] = "none"]
  /\ stack' = 1
  /\ ret_slot' = "sigil"
  /\ pc_render' = "load"
  /\ UNCHANGED <<mainVars, wiringVars, pc_mgr, engine, gstate, lastCall>>

\* the frame on top resolves: it is popped, and the last frame writes the result slot
PopFrame ==
  /\ stack' = stack - 1
  /\ ret_slot' = IF stack - 1 = 0 THEN "value" ELSE ret_slot

\* EvalStack::iter_once(sl_reg, sl_tbl): one unit of evaluation of the script.
\* It pushes a frame, resolves the top frame, defines the rndr procedure in the
\* environment the evaluation was started in, or applies a native: one of
\* the calls the script makes, which adds at most max_lines lines
IterOnceOf(next_pc, calls, max_lines) ==
  /\ stack > 0
  /\ \/ /\ stack < MaxStack
        /\ stack' = stack + 1
        /\ lastCall' = NoCall
        /\ pc_render' = next_pc
        /\ UNCHANGED <<ret_slot, engine, gstate, wiringVars>>
     \/ /\ PopFrame
        /\ lastCall' = NoCall
        /\ pc_render' = next_pc
        /\ UNCHANGED <<engine, gstate, wiringVars>>
     \/ /\ env["rndr_env"]["S_RNDR"] = Unbound
        /\ LET i == Insert("render", "rndr_env", "S_RNDR", Ref("rndr_proc"),
                           env, insCount, lateIns)
           IN /\ env' = i.env
              /\ insCount' = i.cnt
              /\ lateIns' = i.late
        /\ lastCall' = NoCall
        /\ pc_render' = next_pc
        /\ UNCHANGED <<stack, ret_slot, engine, gstate, heap, parent, linkCount, handed>>
     \/ \E c \in calls :
          /\ env_lookup_by_id("rndr_env", c.name).kind = "native"
          /\ env_lookup_by_id("rndr_env", c.name).arity = Len(c.args)
          /\ c.name = "add-line" => Len(engine.lines) < max_lines
          /\ LET r == Apply(engine, gstate, c)
             IN /\ engine' = r.engine
                /\ gstate' = r.gstate
                /\ lastCall' = CallRec(c, r)
                /\ IF r.fatal = "none"
                   THEN PopFrame /\ pc_render' = next_pc
                   ELSE /\ UNCHANGED <<stack, ret_slot>>
                        /\ pc_render' = IF r.fatal = "fault" THEN "aborted" ELSE "panicked"
          /\ UNCHANGED wiringVars

\* iter_once under a script that makes any of the calls of NativeCalls
IterOnce(next_pc) == IterOnceOf(next_pc, NativeCalls, MaxLines)

\* while ret_slot == sigil { stack.iter_once(sl_reg, sl_tbl); }
RenderLoadIter ==
  /\ pc_render = "load"
  /\ ret_slot = "sigil"
  /\ IterOnce("load")
  /\ UNCHANGED <<mainVars, tblIn, pc_mgr>>

\* RenderLoadDone without the loop condition: the load loop is left while the
\* result slot may still hold the sentinel
RenderLoadDone_Early ==
  /\ pc_render = "load"
  /\ stack' = stack + 1
  /\ pc_render' = "loop_top"
  /\ UNCHANGED <<mainVars, wiringVars, tblIn, pc_mgr, engine, gstate, ret_slot, lastCall>>

\* the loop ends; env_lookup_by_id(sl_env, S_RNDR); push_frame_head(ret_addr,
\* Apply, sl_env); push(rndr)
RenderLoadDone ==
  /\ pc_render = "load"
  /\ ret_slot # "sigil"
  /\ stack' = stack + 1
  /\ pc_render' = "loop_top"
  /\ UNCHANGED <<mainVars, wiringVars, tblIn, pc_mgr, engine, gstate, ret_slot, lastCall>>

\* loop { if engine.should_configure_swapchain { config_swapchain();
\* draw_frame(); should_configure_swapchain = false; } ...
RenderLoopHost ==
  /\ pc_render = "loop_top"
  /\ IF engine.scs
     THEN \E a \in AcquireOutcomes, p \in PresentOutcomes :
            LET d == draw_frame(engine, config_swapchain(gstate), a,
                                IF a = "ok" THEN p ELSE "none")
            IN /\ gstate' = d.gstate
               /\ lastCall' = [NoCall EXCEPT !.name = "host-draw", !.draw = d.draw,
                                             !.fatal = IF d.draw.returned THEN "none"
                                                       ELSE "panic"]
               /\ IF d.draw.returned
                  THEN /\ engine' = [d.engine EXCEPT !.scs = FALSE]
                       /\ pc_render' = "loop_step"
                  ELSE /\ engine' = d.engine
                       /\ pc_render' = "panicked"
     ELSE /\ pc_render' = "loop_step"
          /\ UNCHANGED <<engine, gstate, lastCall>>
  /\ UNCHANGED <<mainVars, wiringVars, tblIn, pc_mgr, stack, ret_slot>>

\* ... stack.iter_once(sl_reg, sl_tbl); ...
RenderLoopIterOnce ==
  /\ pc_render = "loop_step"
  /\ IterOnce("loop_test")
  /\ UNCHANGED <<mainVars, tblIn, pc_mgr>>

\* RenderLoopTest with the test off by one: the loop is left while a frame is
\* still on the stack
RenderLoopTest_BreakEarly ==
  /\ pc_render = "loop_test"
  /\ pc_render' = IF stack <= 1 THEN "ended" ELSE "loop_top"
  /\ UNCHANGED <<mainVars, wiringVars, tblIn, pc_mgr, engine, gstate, stack,
                 ret_slot, lastCall>>

\* ... if stack.is_empty() { println!("render thread ended"); break; } }
RenderLoopTest ==
  /\ pc_render = "loop_test"
  /\ pc_render' = IF stack = 0 THEN "ended" ELSE "loop_top"
  /\ UNCHANGED <<mainVars, wiringVars, tblIn, pc_mgr, engine, gstate, stack,
                 ret_slot, lastCall>>

\* drop(engine), also when a panic unwinds render_loop: GraphicsState::drop
\* waits for the fence and destroys everything; framebuffer.take().unwrap()
\* panics when there is no framebuffer
RenderDrop ==
  /\ pc_render \in {"ended", "panicked"}
  /\ IF gstate.framebuffer
     THEN /\ gstate' = [wait_for_fence(gstate) EXCEPT
                           !.framebuffer = FALSE, !.fence = "destroyed",
                           !.vbufs = 0, !.pipelines = 0]
          /\ pc_render' = "dropped"
     ELSE /\ gstate' = [wait_for_fence(gstate) EXCEPT !.fence = "destroyed"]
          /\ pc_render' = "aborted"
  /\ UNCHANGED <<mainVars, wiringVars, tblIn, pc_mgr, engine, stack, ret_slot, lastCall>>

\* ------------------------------------------------------ specification

Init ==
  /\ argc \in {1, 2, 3}
  /\ pc_main = "start"
  /\ ran = {}
  /\ window = FALSE
  /\ heap = <<>>
  /\ env = [f \in Frames |-> [id \in Ids |-> Unbound]]
  /\ parent = [f \in Frames |-> NoParent]
  /\ insCount = [f \in Frames |-> [id \in Ids |-> 0]]
  /\ linkCount = 0
  /\ lateIns = {}
  /\ handed = [t \in Threads |-> {}]
  /\ tblIn = [t \in Threads |-> "none"]
  /\ fr_dims = <<0, 0>>
  /\ pc_mgr = "unspawned"
  /\ pc_render = "unspawned"
  /\ engine = NoEngine
  /\ gstate = NoGraphics
  /\ stack = 0
  /\ ret_slot = "sigil"
  /\ lastCall = NoCall

Next ==
  \/ MainRunFile
  \/ MainRepl
  \/ ReplStep
  \/ MainInitContext
  \/ MainAcquireRegions
  \/ MainPrepEnvironment
  \/ MainEnvCreate
  \/ MainQueueCreate
  \/ MainBindEndpoints
  \/ MainSharedScalars
  \/ MainSpawnRender
  \/ MainSpawnManager
  \/ MainRunLoop
  \/ RunLoopStep
  \/ MgrTableEnter
  \/ MgrTableLeave
  \/ RenderEngineNew
  \/ RenderBindEngine
  \/ RenderInsertNativesBegin
  \/ RenderInsertNativesEnd
  \/ RenderSetup
  \/ RenderParseBegin
  \/ RenderParseEnd
  \/ RenderLoadIter
  \/ RenderLoadDone
  \/ RenderLoopHost
  \/ RenderLoopIterOnce
  \/ RenderLoopTest
  \/ RenderDrop

Spec == Init /\ [][Next]_vars

\* ---------------------------------------------------------------------------
\* The render thread under a script of well-shaped line calls

\* the line calls of a script, and a redraw whose frame is presented
LineCalls ==
  { Call("add-line", <<EngObj, GoodPoints, GoodColors>>, "none", "none", "garbage"),
    Call("pop-line", <<EngObj>>, "none", "none", "garbage"),
    Call("clear", <<EngObj>>, "none", "none", "garbage"),
    Call("redraw", <<EngObj>>, "ok", "ok", "garbage") }

\* while ret_slot == sigil { stack.iter_once(sl_reg, sl_tbl); }
EngineLoadIter ==
  /\ pc_render = "load"
  /\ ret_slot = "sigil"
  /\ IterOnceOf("load", LineCalls, MaxEngineLines)
  /\ UNCHANGED <<mainVars, tblIn, pc_mgr>>

\* ... stack.iter_once(sl_reg, sl_tbl); ...
EngineLoopIterOnce ==
  /\ pc_render = "loop_step"
  /\ IterOnceOf("loop_test", LineCalls, MaxEngineLines)
  /\ UNCHANGED <<mainVars, tblIn, pc_mgr>>

\* main up to the spawn of the render thread, then the render thread alone:
\* no other thread reaches the engine
NextEngine ==
  \/ MainInitContext
  \/ MainAcquireRegions
  \/ MainPrepEnvironment
  \/ MainEnvCreate
  \/ MainQueueCreate
  \/ MainBindEndpoints
  \/ MainSharedScalars
  \/ MainSpawnRender
  \/ RenderEngineNew
  \/ RenderBindEngine
  \/ RenderInsertNativesBegin
  \/ RenderInsertNativesEnd
  \/ RenderSetup
  \/ RenderParseBegin
  \/ RenderParseEnd
  \/ EngineLoadIter
  \/ RenderLoadDone
  \/ RenderLoopHost
  \/ EngineLoopIterOnce
  \/ RenderLoopTest
  \/ RenderDrop

SpecEngine == Init /\ [][NextEngine]_vars

\* ============================================================== claims

\* the render thread has returned from insert_native_procs
RenderRegistered ==
  pc_render \notin {"unspawned", "spawned", "engine", "eng_bound", "registering"}

\* ---- C1
\* a reference handed to thread t is sanctioned when it points into t's own
\* Region, or to a queue endpoint, or to the Symbol Table
Sanctioned(t, r) ==
  \/ heap[r].region = OwnRegion(t)
  \/ heap[r].kind = "endpoint"
  \/ heap[r].kind = "table"

\* C1: every raw reference a thread is handed as a spawn or run_loop argument
\* points into that thread's own Region, to a queue endpoint or to the Symbol
\* Table; in particular the input thread holds no pointer to a value of
\* main_region.
C1_Orig ==
  \A t \in Threads : \A r \in handed[t] : Sanctioned(t, r)

\* ---- C2
\* C2: no two threads are inside the Symbol Table at once with at least one of
\* them inserting.
C2_Orig ==
  \A t1 \in Threads, t2 \in Threads :
    (t1 # t2 /\ tblIn[t1] # "none" /\ tblIn[t2] # "none")
      => (tblIn[t1] # "insert" /\ tblIn[t2] # "insert")

\* ---- C3
\* the thread runs its loop
Started(t) ==
  CASE t = "input" -> pc_main = "run_loop"
    [] t = "manager" -> pc_mgr # "unspawned"
    [] t = "render" -> pc_render # "unspawned"

\* the objects thread t reaches: its arguments, and what a lookup rooted at its
\* environment finds, parent fallback included
Reach(t) ==
  handed[t] \cup
  { env_lookup_by_id(RootEnv(t), id).name :
      id \in { i \in Ids : env_lookup_by_id(RootEnv(t), i).kind = "obj" } }

Holders(o) == { t \in Threads : Started(t) /\ o \in Reach(t) }

\* C3: once all three threads run, each channel's send endpoint is reachable
\* from exactly one thread and its receive endpoint from exactly one thread.
C3_Orig ==
  (\A t \in Threads : Started(t)) =>
    \A c \in Channels :
      Cardinality(Holders(c.send)) = 1 /\ Cardinality(Holders(c.recv)) = 1

\* ---- C4
\* the last step was a redraw call that got past its handle check into draw_frame
RedrawDrew == lastCall.name = "redraw" /\ lastCall.deref

\* C4 as stated: every redraw call that returns has submitted the command
\* buffer once and presented once, whatever image acquisition answered.
C4_Orig ==
  (RedrawDrew /\ lastCall.draw.returned) =>
    (lastCall.draw.submits = 1 /\ lastCall.draw.presents = 1)

\* C4 amended: a redraw call submits at most once and presents as often as it
\* submits; when image acquisition fails it returns without submitting; when
\* acquisition succeeds and the call returns it has submitted once and
\* presented once.
C4_Amended ==
  RedrawDrew =>
    /\ lastCall.draw.submits <= 1
    /\ lastCall.draw.presents = lastCall.draw.submits
    /\ lastCall.draw.acq # "ok" =>
         (lastCall.draw.submits = 0 /\ lastCall.draw.returned)
    /\ (lastCall.draw.acq = "ok" /\ lastCall.draw.returned) =>
         lastCall.draw.submits = 1

C4_Witness ==
  /\ RedrawDrew
  /\ lastCall.draw.acq = "ok"
  /\ lastCall.draw.returned
  /\ lastCall.draw.submits = 1

\* ---- C5
\* the argument is an F32 vector holding n floats
F32VecOf(v, n) == v.core = "VecArr" /\ v.elt = "T_F32" /\ v.len = n

\* C5: an add-line call appends exactly when points is an F32 vector of 4
\* floats and colors an F32 vector of 3 floats; with any other shape it fails
\* on an assertion and reads nothing past a payload.
C5_Orig ==
  (lastCall.name = "add-line" /\ lastCall.deref) =>
    IF F32VecOf(lastCall.args[2], PointFloats) /\ F32VecOf(lastCall.args[3], ColorFloats)
    THEN lastCall.fatal = "none"
    ELSE lastCall.fatal = "shape" /\ ~lastCall.oob

\* ---- C6
\* the arguments of a call have the configuration tag and type discriminant
\* its native expects
ShapeOk(c) ==
  /\ c.args[1].cfg = "B8Other"
  /\ c.name = "frame-size" => (c.args[2].core = "U32" /\ c.args[3].core = "U32")
  /\ c.name = "add-line" =>
       /\ c.args[2].core = "VecArr" /\ c.args[2].elt = "T_F32"
       /\ c.args[3].core = "VecArr" /\ c.args[3].elt = "T_F32"
  /\ c.name = "bg-col" =>
       (c.args[2].core = "F32" /\ c.args[3].core = "F32" /\ c.args[4].core = "F32")

\* this step of the render thread applies a native
NativeStep ==
  /\ pc_render \in {"load", "loop_step"}
  /\ pc_render' \in {"load", "loop_test", "panicked", "aborted"}
  /\ lastCall'.name \in NativeNames

\* C6: a native call with an argument of the wrong configuration tag or type
\* discriminant fails on an assertion, leaves the Engine (clear, lines, colors,
\* buflen, extent, should_configure_swapchain) as it was, and does not read the
\* engine pointer unless the handle's tag check passed.
C6_Rejected ==
  [][ (NativeStep /\ ~ShapeOk(lastCall')) =>
        /\ lastCall'.fatal = "shape"
        /\ pc_render' = "panicked"
        /\ engine' = engine
        /\ lastCall'.args[1].cfg # "B8Other" => ~lastCall'.deref ]_vars

C6_Witness ==
  /\ pc_render = "panicked"
  /\ lastCall.name = "frame-size"
  /\ lastCall.fatal = "shape"
  /\ lastCall.deref

\* ---- C7
\* the procedures bound in the render frame
Registered ==
  { env["rndr_env"][id] : id \in { i \in Ids : env["rndr_env"][i].kind = "native" } }

\* the arity of the bound procedure of that name (-1 when there is none)
ArityOf(n) ==
  IF \E f \in Registered : f.name = n
  THEN (CHOOSE f \in Registered : f.name = n).arity
  ELSE -1

\* the arities other than redraw's: resize / frame-size (handle, width,
\* height), add-line (handle, points, colors), remove-last-line / pop-line
\* (handle), set-clear-color / bg-col (handle, 3 floats), clear-all-lines /
\* clear (handle)
OtherArities ==
  /\ Cardinality(Registered) = 6
  /\ { f.name : f \in Registered } = NativeNames
  /\ ArityOf("frame-size") = 3
  /\ ArityOf("add-line") = 3
  /\ ArityOf("pop-line") = 1
  /\ ArityOf("bg-col") = 4
  /\ ArityOf("clear") = 1

\* C7 as stated: exactly the six procedures are registered, redraw with no
\* argument.
C7_Orig ==
  RenderRegistered => (OtherArities /\ ArityOf("redraw") = 0)

\* C7 amended: exactly the six procedures are registered, with the catalogue's
\* arities, except that redraw takes one argument, the engine handle.
C7_Amended ==
  RenderRegistered => (OtherArities /\ ArityOf("redraw") = 1)

C7_Witness ==
  /\ RenderRegistered
  /\ env["rndr_env"]["redraw"].kind = "native"
  /\ lastCall.name = "redraw"

\* ---- C8
\* the bindings main wires: frame, id, object
Wiring ==
  { <<"main_env", "S_MR_SEND", "mr_send">>, <<"main_env", "S_CM_RECV", "cm_recv">>,
    <<"rndr_env", "S_MR_RECV", "mr_recv">>, <<"rndr_env", "S_CR_RECV", "cr_recv">>,
    <<"main_env", "S_FR_DIMS", "fr_dims">>, <<"main_env", "S_CUR_POS", "cur_pos">> }

\* C8: when a worker thread has been spawned, the render frame's parent link
\* and the six wiring bindings have each been written exactly once, before
\* the spawn, and the input thread makes no insertion after the spawn.
C8_WiredOnce ==
  /\ linkCount <= 1
  /\ \A w \in Wiring : insCount[w[1]][w[2]] <= 1
  /\ Spawned =>
       /\ linkCount = 1
       /\ parent["rndr_env"] = "main_env"
       /\ \A w \in Wiring :
            insCount[w[1]][w[2]] = 1 /\ env[w[1]][w[2]] = Ref(w[3])
       /\ \A x \in lateIns : x[1] # "input"

C8_Witness ==
  /\ pc_main = "run_loop"
  /\ fr_dims # <<0, 0>>
  /\ pc_mgr = "running"
  /\ \E x \in lateIns : x[1] = "render"

\* ---- C9
RenderFrameIds == {"S_MR_RECV", "S_CR_RECV", "S_ENGINE"} \cup NativeNames
MainFrameIds == {"S_MR_SEND", "S_CM_RECV", "S_FR_DIMS", "S_CUR_POS"}

\* what main itself has bound in main_env so far
MainBindings ==
  [ id \in Ids |->
      CASE id \in {"S_MR_SEND", "S_CM_RECV"} /\
             pc_main \notin {"start", "exited", "repl", "after_mode", "ctx",
                             "regions", "env_setup", "envs", "queues"} ->
             Ref(IF id = "S_MR_SEND" THEN "mr_send" ELSE "cm_recv")
        [] id \in {"S_FR_DIMS", "S_CUR_POS"} /\
             pc_main \notin {"start", "exited", "repl", "after_mode", "ctx",
                             "regions", "env_setup", "envs", "queues", "endpoints"} ->
             Ref(IF id = "S_FR_DIMS" THEN "fr_dims" ELSE "cur_pos")
        [] OTHER -> Unbound ]

\* C9: a binding made in the render frame is not found by a lookup rooted at
\* main_env and main_env holds exactly what main bound in it; a binding of
\* main_env is found by a lookup rooted at rndr_env unless rndr_env binds the id.
C9_Frames ==
  /\ \A id \in RenderFrameIds :
       env["rndr_env"][id] # Unbound => env_lookup_by_id("main_env", id) = Unbound
  /\ env["main_env"] = MainBindings
  /\ parent["rndr_env"] = "main_env" =>
       \A id \in MainFrameIds :
         env_lookup_by_id("rndr_env", id) =
           IF env["rndr_env"][id] # Unbound THEN env["rndr_env"][id]
           ELSE env["main_env"][id]

C9_Witness ==
  /\ RenderRegistered
  /\ env["rndr_env"]["S_ENGINE"] = Ref("eng_obj")
  /\ env["rndr_env"]["S_RNDR"] # Unbound
  /\ env_lookup_by_id("rndr_env", "S_MR_SEND") = Ref("mr_send")
  /\ env_lookup_by_id("main_env", "S_ENGINE") = Unbound

OutOfDateSeen(c) ==
  /\ c.draw.returned
  /\ (c.draw.acq = "outofdate" \/ c.draw.pres = "outofdate")

\* C11 as stated: a reconfiguration request is never lost. When the last
\* draw_frame, the one the render loop issues right after config_swapchain
\* included, has found the swapchain out of date, should_configure_swapchain
\* is still set afterwards: it is not cleared before a reconfiguration that
\* follows the request.
C11_Orig ==
  (lastCall.name \in {"host-draw", "redraw"} /\ OutOfDateSeen(lastCall))
    => engine.scs

\* ---------------------------------------------------------------------------
\* C12

\* C12 as stated: no wait on the submission-complete fence times out. Every
\* wait, in state_buffer_setup, draw_frame, config_swapchain and
\* GraphicsState::drop, meets a fence that is signaled or that a submitted
\* command buffer will signal: the fence is created in a state that satisfies
\* the first wait, and draw_frame never resets it and then returns without
\* submitting.
C12_Orig == gstate.last_wait # "timeout"

\* ---------------------------------------------------------------------------
\* C13

\* the render thread is over: it left the loop by its break, a panic unwound
\* it, or the process was aborted
ThreadEnded == pc_render \in {"ended", "panicked", "dropped", "aborted"}

\* C13 as stated: the steady-state loop exits, and the thread ends, only when
\* the stack is empty right after a step. The result slot holds a value once
\* the script is loaded, so the thread that is over then was in the steady
\* state.
C13_Orig == (ret_slot = "value" /\ ThreadEnded) => stack = 0

\* a step of the render thread in its steady-state loop
LoopStep(at) == pc_render = at /\ pc_render' # pc_render

\* C13, amended: each iteration of the steady-state loop first does the host
\* work, one config_swapchain followed by one draw_frame and only when a
\* reconfiguration is pending, without touching the stack; then calls iter_once
\* once; then tests is_empty, which changes nothing. The loop is left by its
\* break exactly when the stack is empty right after a step, and the thread
\* otherwise leaves the loop only by a fatal failure of the host draw or of a
\* native.
C13_Amended ==
  [][ /\ LoopStep("loop_top") =>
           /\ stack' = stack /\ ret_slot' = ret_slot
           /\ IF engine.scs
              THEN /\ lastCall'.name = "host-draw"
                   /\ lastCall'.draw.acq # "none"
                   /\ gstate'.framebuffer
                   /\ \/ pc_render' = "loop_step" /\ lastCall'.fatal = "none"
                      \/ pc_render' = "panicked" /\ lastCall'.fatal # "none"
              ELSE /\ pc_render' = "loop_step"
                   /\ UNCHANGED <<engine, gstate, lastCall>>
      /\ LoopStep("loop_step") =>
           /\ stack' \in {stack - 1, stack, stack + 1}
           /\ \/ pc_render' = "loop_test" /\ lastCall'.fatal = "none"
              \/ /\ pc_render' \in {"panicked", "aborted"}
                 /\ lastCall'.fatal # "none"
                 /\ stack' = stack
      /\ LoopStep("loop_test") =>
           /\ pc_render' = IF stack = 0 THEN "ended" ELSE "loop_top"
           /\ UNCHANGED <<engine, gstate, stack, ret_slot, lastCall>>
      /\ (pc_render' = "ended" /\ pc_render # "ended") =>
           (pc_render = "loop_test" /\ stack = 0)
    ]_vars

\* the loop was left by its break, with the stack empty after a step
C13_Witness ==
  /\ pc_render = "ended"
  /\ stack = 0
  /\ ret_slot = "value"
  /\ gstate.framebuffer

\* ---------------------------------------------------------------------------
\* C14

\* the render thread's evaluation state
EvalState == <<stack, ret_slot, engine, gstate, lastCall, env>>

\* C14: the two completion signals agree in render_loop. The load loop calls
\* iter_once while and only while the result slot holds the sentinel; the
\* slot leaves the sentinel only on the step that empties the stack; so once
\* the slot holds a value the stack is empty, and the Apply frame of the rndr
\* procedure is pushed onto an empty stack.
C14_SignalsAgree ==
  /\ []((pc_render = "load" /\ ret_slot # "sigil") => stack = 0)
  /\ [][ /\ (pc_render = "load" /\ pc_render' # "loop_top"
               /\ EvalState' # EvalState) => ret_slot = "sigil"
         /\ (pc_render = "load" /\ ret_slot = "sigil") => pc_render' # "loop_top"
         /\ (ret_slot = "sigil" /\ ret_slot' # "sigil") =>
              (pc_render = "load" /\ stack = 1 /\ stack' = 0)
         /\ (pc_render = "load" /\ pc_render' = "loop_top") =>
              (ret_slot # "sigil" /\ stack = 0 /\ stack' = 1)
       ]_vars

\* the load loop is over and the Apply frame is the only frame on the stack
C14_Witness ==
  /\ pc_render = "loop_top"
  /\ ret_slot = "value"
  /\ stack = 1
  /\ ~gstate.framebuffer

\* ---------------------------------------------------------------------------
\* C15

\* the engine is set up and not yet dropped
EngineSetUp ==
  pc_render \in {"setup", "parsing", "load", "loop_top", "loop_step",
                 "loop_test", "ended", "panicked", "aborted"}

\* C15: after setup and any sequence of add-line, pop-line and clear calls,
\* 16 times the number of lines is strictly less than buflen, there is exactly
\* one vertex buffer and it was made with the current buflen, so the bytes
\* draw_frame copies fit in it; and buflen never decreases.
C15_BufferFits ==
  /\ [](EngineSetUp =>
          /\ LineBytes * Len(engine.lines) < engine.buflen
          /\ gstate.vbufs = 1
          /\ gstate.vbuf_len = engine.buflen
          /\ LineBytes * Len(engine.lines) <= gstate.vbuf_len)
  /\ [][engine'.buflen >= engine.buflen]_vars

\* the lines have filled the first buffer and the buffer has been grown
C15_Witness ==
  /\ EngineSetUp
  /\ LineBytes * Len(engine.lines) >= InitBuflen
  /\ engine.buflen = 2 * InitBuflen
  /\ gstate.vbuf_len = engine.buflen

\* ---------------------------------------------------------------------------
\* C16

\* C16: after any sequence of add-line, pop-line and clear calls, pop-line on
\* an empty list included, lines and colors have the same length, so
\* draw_frame issues one draw per line: line i with color i and the two
\* vertices [2i, 2i + 2) of that line, no vertex drawn twice.
C16_LinesColors ==
  /\ Len(engine.lines) = Len(engine.colors)
  /\ Len(draw_commands(engine)) = Len(engine.colors)
  /\ \A i \in 1..Len(engine.lines) :
       /\ i \in DOMAIN engine.colors
       /\ draw_commands(engine)[i].color = engine.colors[i]
       /\ draw_commands(engine)[i].end = draw_commands(engine)[i].first + 2
       /\ i > 1 => draw_commands(engine)[i].first = draw_commands(engine)[i - 1].end

\* pop-line has returned and left both lists empty
C16_Witness ==
  /\ lastCall.name = "pop-line"
  /\ lastCall.fatal = "none"
  /\ Len(engine.lines) = 0
  /\ Len(engine.colors) = 0

\* ---------------------------------------------------------------------------
\* C17

\* draw_frame acquired an image, submitted nothing and did not return: it
\* panicked on framebuffer.as_ref().unwrap() when beginning its render pass
DrewWithoutFramebuffer(c) ==
  /\ c.draw.acq = "ok"
  /\ c.draw.submits = 0
  /\ ~c.draw.returned

\* GraphicsState::drop ran without a framebuffer: framebuffer.take().unwrap()
\* panicked after the fence was destroyed
DroppedWithoutFramebuffer ==
  /\ pc_render = "aborted"
  /\ gstate.fence = "destroyed"
  /\ ~gstate.framebuffer

\* C17 as stated: for every sequence of native calls a script makes, redraw
\* during the script load included, the framebuffer is present whenever
\* draw_frame begins its render pass and whenever the GraphicsState is dropped.
C17_Orig ==
  /\ ~DrewWithoutFramebuffer(lastCall)
  /\ ~DroppedWithoutFramebuffer

====
